---- MODULE Spec2Model ----
(***************************************************************************)
(* Model of twoson: an interactive editor for hierarchical string          *)
(* catalogs.  Rust Strings that are keys or paths are sequences of         *)
(* one-character strings (so that split('.') and byte-wise comparison are  *)
(* computed); translation texts and status messages are TLA+ strings.      *)
(***************************************************************************)
EXTENDS Integers, Sequences, FiniteSets, TLC

VARIABLES tree, visible_nodes, selected_index, textarea, translation_store,
          mode, status_message, pc, list_state, load

vars == <<tree, visible_nodes, selected_index, textarea, translation_store,
          mode, status_message, pc, list_state, load>>

(* ------------------------------------------------------------------ *)
(* Bounds                                                               *)
(* ------------------------------------------------------------------ *)
\* largest area.height handed to render_key_list
MaxHeight == 5
\* largest number of rows / selected index tried by the viewport check
MaxRows == 5
\* cap on selected_index once next() has run past an empty list
MaxSelected == 3

(* ------------------------------------------------------------------ *)
(* Option, strings, ordering                                            *)
(* ------------------------------------------------------------------ *)
None == [is_some |-> FALSE]
Some(x) == [is_some |-> TRUE, val |-> x]

EmptyMap == [k \in {} |-> k]

\* byte value of the characters used in keys
Code(c) ==
    CASE c = "-" -> 45
      [] c = "." -> 46
      [] c = "a" -> 97
      [] c = "b" -> 98
      [] c = "c" -> 99
      [] c = "d" -> 100
      [] c = "e" -> 101
      [] c = "f" -> 102
      [] c = "g" -> 103
      [] c = "z" -> 122

\* a.cmp(b) == Less on Rust Strings: byte-wise lexicographic
StrLess(a, b) ==
    \E i \in 1..(Len(a) + 1) :
        /\ \A j \in 1..(i - 1) : j <= Len(b) /\ a[j] = b[j]
        /\ \/ i = Len(a) + 1 /\ Len(b) >= i
           \/ i <= Len(a) /\ i <= Len(b) /\ Code(a[i]) < Code(b[i])

\* Vec::sort on a list of distinct Strings
RECURSIVE SortKeys(_)
SortKeys(S) ==
    IF S = {} THEN <<>>
    ELSE LET m == CHOOSE x \in S : \A y \in S \ {x} : StrLess(x, y)
         IN <<m>> \o SortKeys(S \ {m})

\* str::split('.'): never empty, "" splits to one empty segment
RECURSIVE SplitFrom(_, _, _)
SplitFrom(s, i, cur) ==
    IF i > Len(s) THEN <<cur>>
    ELSE IF s[i] = "." THEN <<cur>> \o SplitFrom(s, i + 1, <<>>)
    ELSE SplitFrom(s, i + 1, Append(cur, s[i]))

Split(s) == SplitFrom(s, 1, <<>>)

\* format!("{}.{}", prefix, key)
DotJoin(prefix, key) == prefix \o <<".">> \o key

(* ------------------------------------------------------------------ *)
(* translation_data.rs                                                  *)
(* ------------------------------------------------------------------ *)
JsonString(s) == [type |-> "String", s |-> s]
JsonObject(o) == [type |-> "Object", obj |-> o]

TranslationItem(k, src, tgt) == [key |-> k, source_text |-> src, target_text |-> tgt]

is_translated(item) == item.target_text.is_some

\* every (key, text) insert that flatten_recursive performs below prefix
RECURSIVE flatten_recursive(_, _)
flatten_recursive(prefix, value) ==
    IF value.type = "String" THEN {<<prefix, value.s>>}
    ELSE UNION {flatten_recursive(DotJoin(prefix, key), value.obj[key]) :
                    key \in DOMAIN value.obj}

FlattenInserts(data) ==
    UNION {flatten_recursive(key, data[key]) : key \in DOMAIN data}

\* the maps flatten_json can return: one entry per inserted key; when two
\* inserts share a key the survivor depends on HashMap iteration order
flatten_json(data) ==
    LET ins == FlattenInserts(data)
        keys == {p[1] : p \in ins}
    IN {m \in [keys -> {p[2] : p \in ins}] : \A k \in keys : <<k, m[k]>> \in ins}

\* an item made for every key of either document
load_items_all_keys(flat_source_data, flat_target_data) ==
    LET sorted == SortKeys(DOMAIN flat_source_data \cup DOMAIN flat_target_data)
    IN [i \in 1..Len(sorted) |->
            TranslationItem(sorted[i],
                IF sorted[i] \in DOMAIN flat_source_data
                THEN flat_source_data[sorted[i]] ELSE "",
                IF sorted[i] \in DOMAIN flat_target_data
                THEN Some(flat_target_data[sorted[i]]) ELSE None)]

\* load_from_files after both documents are parsed: the sorted item list
load_items(flat_source_data, flat_target_data) ==
    LET sorted == SortKeys(DOMAIN flat_source_data)
    IN [i \in 1..Len(sorted) |->
            TranslationItem(sorted[i], flat_source_data[sorted[i]],
                IF sorted[i] \in DOMAIN flat_target_data
                THEN Some(flat_target_data[sorted[i]]) ELSE None)]

\* TranslationStore::new
NewStore(items) ==
    [k \in {items[i].key : i \in 1..Len(items)} |->
        LET i == CHOOSE j \in 1..Len(items) :
                    items[j].key = k /\ \A l \in (j + 1)..Len(items) : items[l].key # k
        IN items[i]]

\* outcome of a panicking computation
Panic == [type |-> "Panic"]

\* the inner loop of unflatten_to_json_value over segments[i..], with
\* `current` the value the walk has reached
RECURSIVE unflatten_walk(_, _, _, _)
unflatten_walk(current, segments, i, text) ==
    LET segment == segments[i] IN
    IF i = Len(segments)
    THEN IF current.type = "Object"
         THEN JsonObject((segment :> JsonString(text)) @@ current.obj)
         ELSE current
    ELSE IF current.type # "Object"
         THEN Panic
         ELSE LET entry == IF segment \in DOMAIN current.obj
                           THEN current.obj[segment]
                           ELSE JsonObject(EmptyMap)
                  below == unflatten_walk(entry, segments, i + 1, text)
              IN IF below = Panic THEN Panic
                 ELSE JsonObject((segment :> below) @@ current.obj)

RECURSIVE unflatten_keys(_, _, _, _)
unflatten_keys(root, sorted_keys, n, all_items) ==
    IF n > Len(sorted_keys) \/ root = Panic THEN root
    ELSE LET item == all_items[sorted_keys[n]]
             next_root == IF item.target_text.is_some
                          THEN unflatten_walk(root, Split(sorted_keys[n]), 1,
                                              item.target_text.val)
                          ELSE root
         IN unflatten_keys(next_root, sorted_keys, n + 1, all_items)

unflatten_to_json_value(all_items) ==
    unflatten_keys(JsonObject(EmptyMap), SortKeys(DOMAIN all_items), 1, all_items)

(* ------------------------------------------------------------------ *)
(* main.rs: the forest                                                  *)
(* ------------------------------------------------------------------ *)
TreeNode(seg, path) ==
    [key_segment |-> seg, full_path |-> path, translation |-> None,
     children |-> <<>>, expanded |-> FALSE, fully_translated |-> FALSE]

is_leaf(node) == node.children = <<>>

\* nodes.iter().position(|n| n.key_segment == segment); 0 when absent
Position(nodes, segment) ==
    IF \E i \in 1..Len(nodes) : nodes[i].key_segment = segment
    THEN CHOOSE i \in 1..Len(nodes) :
            /\ nodes[i].key_segment = segment
            /\ \A j \in 1..(i - 1) : nodes[j].key_segment # segment
    ELSE 0

\* the item attached to every node on its path, not only the last
RECURSIVE build_insert_all(_, _, _, _, _)
build_insert_all(nodes, segments, i, path_before, item) ==
    LET segment == segments[i]
        path_so_far == IF path_before = <<>> THEN segment
                       ELSE DotJoin(path_before, segment)
        found == Position(nodes, segment)
        nodes1 == IF found = 0 THEN Append(nodes, TreeNode(segment, path_so_far))
                  ELSE nodes
        node_index == IF found = 0 THEN Len(nodes1) ELSE found
        node == [nodes1[node_index] EXCEPT !.translation = Some(item)]
    IN IF i = Len(segments)
       THEN [nodes1 EXCEPT ![node_index] = node]
       ELSE [nodes1 EXCEPT ![node_index] =
                [node EXCEPT !.children =
                    build_insert_all(node.children, segments, i + 1, path_so_far, item)]]

\* the body of build_tree's loop over segments[i..] for one item
RECURSIVE build_insert(_, _, _, _, _)
build_insert(nodes, segments, i, path_before, item) ==
    LET segment == segments[i]
        path_so_far == IF path_before = <<>> THEN segment
                       ELSE DotJoin(path_before, segment)
        found == Position(nodes, segment)
        nodes1 == IF found = 0 THEN Append(nodes, TreeNode(segment, path_so_far))
                  ELSE nodes
        node_index == IF found = 0 THEN Len(nodes1) ELSE found
        node == nodes1[node_index]
    IN IF i = Len(segments)
       THEN [nodes1 EXCEPT ![node_index] = [node EXCEPT !.translation = Some(item)]]
       ELSE [nodes1 EXCEPT ![node_index] =
                [node EXCEPT !.children =
                    build_insert(node.children, segments, i + 1, path_so_far, item)]]

RECURSIVE build_items(_, _, _)
build_items(root_nodes, sorted_items, n) ==
    IF n > Len(sorted_items) THEN root_nodes
    ELSE build_items(
            build_insert(root_nodes, Split(sorted_items[n].key), 1, <<>>,
                         sorted_items[n]),
            sorted_items, n + 1)

\* the comparison with its operands swapped
ItemBefore_Reversed(a, b) == StrLess(b.key, a.key)

\* sort_by(|a, b| a.key.cmp(&b.key)): a goes before b
ItemBefore(a, b) == StrLess(a.key, b.key)

\* one item put into an already sorted list, after the items it does not
\* precede (the sort is stable)
RECURSIVE InsertSorted(_, _)
InsertSorted(sorted, item) ==
    IF sorted = <<>> THEN <<item>>
    ELSE IF ItemBefore(item, Head(sorted)) THEN <<item>> \o sorted
    ELSE <<Head(sorted)>> \o InsertSorted(Tail(sorted), item)

RECURSIVE SortFrom(_, _)
SortFrom(items, n) ==
    IF n = 0 THEN <<>> ELSE InsertSorted(SortFrom(items, n - 1), items[n])

\* the items left in the order they arrive in
SortItems_Unsorted(items) == items

\* sorted_items.sort_by(...)
SortItems(items) == SortFrom(items, Len(items))

\* build_tree over the Vec of the store's values
build_tree(items) == build_items(<<>>, SortItems(items), 1)

\* translation_store.all_items.values().cloned().collect(): the orders a
\* HashMap can yield its values in
ValueOrders(all_items) ==
    LET keys == DOMAIN all_items
        n == Cardinality(keys)
    IN {[i \in 1..n |-> all_items[order[i]]] :
            order \in {f \in [1..n -> keys] : \A k \in keys : \E i \in 1..n : f[i] = k}}

\* the fold with the children combined by OR instead of AND
RECURSIVE update_status_any(_)
update_status_any(nodes) ==
    [i \in 1..Len(nodes) |->
        IF nodes[i].children = <<>>
        THEN [nodes[i] EXCEPT !.fully_translated =
                IF nodes[i].translation.is_some
                THEN nodes[i].translation.val.target_text.is_some ELSE FALSE]
        ELSE LET kids == update_status_any(nodes[i].children)
             IN [nodes[i] EXCEPT !.children = kids,
                                 !.fully_translated =
                                    \E j \in 1..Len(kids) : kids[j].fully_translated]]

LeafStatus(node) ==
    IF node.translation.is_some THEN is_translated(node.translation.val) ELSE FALSE

RECURSIVE update_node_translation_status(_)
update_node_translation_status(nodes) ==
    [i \in 1..Len(nodes) |->
        IF is_leaf(nodes[i])
        THEN [nodes[i] EXCEPT !.fully_translated = LeafStatus(nodes[i])]
        ELSE LET kids == update_node_translation_status(nodes[i].children)
             IN [nodes[i] EXCEPT !.children = kids,
                                 !.fully_translated =
                                    \A j \in 1..Len(kids) : kids[j].fully_translated]]

\* the recursion into children made at the parent's depth
RECURSIVE generate_visible_flat(_, _)
generate_visible_flat(nodes, depth) ==
    IF nodes = <<>> THEN <<>>
    ELSE LET node == Head(nodes)
         IN <<<<node.full_path, depth>>>>
            \o (IF node.expanded
                THEN generate_visible_flat(node.children, depth)
                ELSE <<>>)
            \o generate_visible_flat(Tail(nodes), depth)

RECURSIVE generate_visible_list_recursive(_, _)
generate_visible_list_recursive(nodes, depth) ==
    IF nodes = <<>> THEN <<>>
    ELSE LET node == Head(nodes)
         IN <<<<node.full_path, depth>>>>
            \o (IF node.expanded
                THEN generate_visible_list_recursive(node.children, depth + 1)
                ELSE <<>>)
            \o generate_visible_list_recursive(Tail(nodes), depth)

\* the counter taking an empty target for untranslated
get_translation_progress_nonempty(all_items) ==
    <<Cardinality({k \in DOMAIN all_items :
                      /\ all_items[k].target_text.is_some
                      /\ all_items[k].target_text.val # ""}),
      Cardinality(DOMAIN all_items)>>

\* get_translation_progress: (translated_items, total_items) of the store
get_translation_progress(all_items) ==
    <<Cardinality({k \in DOMAIN all_items : is_translated(all_items[k])}),
      Cardinality(DOMAIN all_items)>>

\* update_visible_nodes: the new list and the clamped selection
VisibleOf(t) == generate_visible_list_recursive(t, 0)

ClampSelected(sel, visible) ==
    IF sel >= Len(visible) /\ visible # <<>> THEN Len(visible) - 1 ELSE sel

\* get_node / get_node_mut: the position of the node a path resolves to, as
\* the list of 1-based sibling indices from the roots; None when a segment
\* has no match
RECURSIVE resolve(_, _, _)
resolve(nodes, segments, i) ==
    LET pos == Position(nodes, segments[i]) IN
    IF pos = 0 THEN None
    ELSE IF i = Len(segments) THEN Some(<<pos>>)
    ELSE LET rest == resolve(nodes[pos].children, segments, i + 1)
         IN IF rest.is_some THEN Some(<<pos>> \o rest.val) ELSE None

get_node(t, path) == resolve(t, Split(path), 1)

RECURSIVE NodeAt(_, _)
NodeAt(nodes, where) ==
    IF Len(where) = 1 THEN nodes[where[1]]
    ELSE NodeAt(nodes[where[1]].children, Tail(where))

RECURSIVE SetNodeAt(_, _, _)
SetNodeAt(nodes, where, new_node) ==
    IF Len(where) = 1 THEN [nodes EXCEPT ![where[1]] = new_node]
    ELSE [nodes EXCEPT ![where[1]] =
            [@ EXCEPT !.children = SetNodeAt(@, Tail(where), new_node)]]

get_selected_path ==
    IF selected_index < Len(visible_nodes)
    THEN Some(visible_nodes[selected_index + 1][1]) ELSE None

\* the selection put back on the first row instead of the searched one
Reselect_Reset(visible, path, sel) == 0

\* visible_nodes.iter().position(|(p, _)| p == path), 0-based; the old index
\* when the path is not in the list
Reselect(visible, path, sel) ==
    IF \E i \in 1..Len(visible) : visible[i][1] = path
    THEN (CHOOSE i \in 1..Len(visible) :
            /\ visible[i][1] = path
            /\ \A j \in 1..(i - 1) : visible[j][1] # path) - 1
    ELSE sel

\* the edit written over the reference text as well
StoreSetTarget_Source(all_items, path, tgt) ==
    IF path \in DOMAIN all_items
    THEN [all_items EXCEPT ![path].target_text = tgt,
                           ![path].source_text = IF tgt.is_some THEN tgt.val ELSE @]
    ELSE all_items

\* if let Some(item) = all_items.get_mut(&path) { item.target_text = tgt }
StoreSetTarget(all_items, path, tgt) ==
    IF path \in DOMAIN all_items
    THEN [all_items EXCEPT ![path].target_text = tgt]
    ELSE all_items

\* the edit written to the store only
TreeSetTarget_StoreOnly(t, path, tgt) == t

\* if let Some(node) = get_node_mut(&path) { if let Some(t) = &mut
\* node.translation { t.target_text = tgt } }
TreeSetTarget(t, path, tgt) ==
    LET where == get_node(t, path) IN
    IF where.is_some /\ NodeAt(t, where.val).translation.is_some
    THEN LET node == NodeAt(t, where.val)
         IN SetNodeAt(t, where.val,
                [node EXCEPT !.translation =
                    Some([node.translation.val EXCEPT !.target_text = tgt])])
    ELSE t

\* node.expanded = value on the node the path resolves to
TreeSetExpanded(t, where, value) ==
    SetNodeAt(t, where, [NodeAt(t, where) EXCEPT !.expanded = value])

(* ------------------------------------------------------------------ *)
(* Catalogs the session is loaded from                                  *)
(* ------------------------------------------------------------------ *)
\* {"a":{"b":"Hello","c":"World"}}
SourceA ==
    (<<"a">> :> JsonObject((<<"b">> :> JsonString("Hello"))
                           @@ (<<"c">> :> JsonString("World"))))
\* {}
SourceEmpty == EmptyMap
\* {"a":"Hello","a.b":"World"}: key "a" is a dot-prefix of key "a.b"
SourcePrefix ==
    (<<"a">> :> JsonString("Hello")) @@ (<<"a", ".", "b">> :> JsonString("World"))
\* {"a":"Hello","a.b":{"c":"World"}}: keys "a" and "a.b.c"
SourcePrefixDeep ==
    (<<"a">> :> JsonString("Hello"))
    @@ (<<"a", ".", "b">> :> JsonObject((<<"c">> :> JsonString("World"))))
\* {"a":"Hello","d":{"e":{"f":"World"},"g":"Hello"}}
SourceDeep ==
    (<<"a">> :> JsonString("Hello"))
    @@ (<<"d">> :> JsonObject(
            (<<"e">> :> JsonObject((<<"f">> :> JsonString("World"))))
            @@ (<<"g">> :> JsonString("Hello"))))
\* {"a-b":{"c":"Hello"},"a":{"b":"World"}}: '-' sorts below '.'
SourceDash ==
    (<<"a", "-", "b">> :> JsonObject((<<"c">> :> JsonString("Hello"))))
    @@ (<<"a">> :> JsonObject((<<"b">> :> JsonString("World"))))
\* {"":{"a":"Hello"},"a":"World"}: keys ".a" and "a"
SourceEmptySegment ==
    (<<>> :> JsonObject((<<"a">> :> JsonString("Hello"))))
    @@ (<<"a">> :> JsonString("World"))
\* {"a.b":"Hello","a":{"b":"World"}}: both entries flatten to key "a.b"
SourceDuplicate ==
    (<<"a", ".", "b">> :> JsonString("Hello"))
    @@ (<<"a">> :> JsonObject((<<"b">> :> JsonString("World"))))

\* {"":{"b":"Hello"}}: key ".b"
SourceEmptyRoot == (<<>> :> JsonObject((<<"b">> :> JsonString("Hello"))))

\* {"":{"":"Hello"}}: key "."
SourceEmptyChain == (<<>> :> JsonObject((<<>> :> JsonString("Hello"))))

\* {"":{"a":{"b":"Hello"}},"a":"World"}: keys ".a.b" and "a"
SourceEmptyNested ==
    (<<>> :> JsonObject((<<"a">> :> JsonObject((<<"b">> :> JsonString("Hello"))))))
    @@ (<<"a">> :> JsonString("World"))

SourceDocs == {SourceA, SourceEmpty, SourcePrefix, SourcePrefixDeep, SourceDeep,
               SourceDash, SourceEmptySegment, SourceEmptyRoot, SourceEmptyChain,
               SourceEmptyNested, SourceDuplicate}

\* no output file, or none given
TargetMissing == EmptyMap
\* {"a":{"b":"Bonjour"}}
TargetB == (<<"a">> :> JsonObject((<<"b">> :> JsonString("Bonjour"))))
\* {"a":{"b":""},"z":"Bonjour"}: an empty value and a key the source lacks
TargetBlank ==
    (<<"a">> :> JsonObject((<<"b">> :> JsonString(""))))
    @@ (<<"z">> :> JsonString("Bonjour"))

\* {"a":"Bonjour","a.b":{"c":"Bonjour"}}
TargetPrefixDeep ==
    (<<"a">> :> JsonString("Bonjour"))
    @@ (<<"a", ".", "b">> :> JsonObject((<<"c">> :> JsonString("Bonjour"))))

TargetDocs == {TargetMissing, TargetB, TargetBlank, TargetPrefixDeep}

\* what load_from_files finds at a path
FileMissing == [kind |-> "missing"]
FileMalformed == [kind |-> "malformed"]
PathNotGiven == [kind |-> "not_given"]
JsonFile(data) == [kind |-> "json", data |-> data]

SourceFiles == {JsonFile(d) : d \in SourceDocs} \cup {FileMissing, FileMalformed}
OutputFiles ==
    {JsonFile(d) : d \in TargetDocs \ {TargetMissing}}
    \cup {PathNotGiven, FileMissing, FileMalformed}

LoadOk(items) == [is_ok |-> TRUE, items |-> items]
LoadErr == [is_ok |-> FALSE]

\* a missing output file taken for an error
load_from_files_strict(source_file, output_file) ==
    IF source_file.kind # "json" \/ output_file.kind \notin {"json", "not_given"}
    THEN {LoadErr}
    ELSE LET target_data == IF output_file.kind = "json" THEN output_file.data
                            ELSE EmptyMap
         IN {LoadOk(load_items(flat_source_data, flat_target_data)) :
                flat_source_data \in flatten_json(source_file.data),
                flat_target_data \in flatten_json(target_data)}

\* the results load_from_files can return: the source must open and parse;
\* the output is read only when a path is given and the file exists, and
\* must then parse
load_from_files(source_file, output_file) ==
    IF source_file.kind # "json" THEN {LoadErr}
    ELSE IF output_file.kind = "malformed" THEN {LoadErr}
    ELSE LET target_data == IF output_file.kind = "json" THEN output_file.data
                            ELSE EmptyMap
         IN {LoadOk(load_items(flat_source_data, flat_target_data)) :
                flat_source_data \in flatten_json(source_file.data),
                flat_target_data \in flatten_json(target_data)}

\* what wl-paste can return, and what the editor can hold after typing
PasteTexts == {"", "Bonjour"}
EditorTexts == {"", "Bonjour"}

\* TextArea::new(target_text.lines()) then lines().join("\n"): the texts of
\* the model carry no line terminator, so the lines rejoin to the same text
TextAreaOf(target_text) == target_text

(* ------------------------------------------------------------------ *)
(* App::new                                                             *)
(* ------------------------------------------------------------------ *)
\* the forest left with the flags build_tree gives its new nodes
NewTree_Unpropagated(items) == build_tree(items)

\* build_tree, then the completion flags
NewTree(items) == update_node_translation_status(build_tree(items))

\* the session App::new builds from the loaded items, with the values of the
\* store handed to build_tree in the order `values`; pc = "new" until
\* run_app starts its loop
NewApp(items, values) ==
    LET t == NewTree(values) IN
    /\ translation_store = NewStore(items)
    /\ tree = t
    /\ visible_nodes = VisibleOf(t)
    /\ selected_index = ClampSelected(0, VisibleOf(t))
    /\ textarea = ""
    /\ mode = "Normal"
    /\ status_message = None
    /\ pc = "new"
    /\ list_state = None

\* main returns the load error before any session exists
NoApp ==
    /\ translation_store = EmptyMap
    /\ tree = <<>>
    /\ visible_nodes = <<>>
    /\ selected_index = 0
    /\ textarea = ""
    /\ mode = "Normal"
    /\ status_message = None
    /\ pc = "load_failed"
    /\ list_state = None

Init ==
    \E source_file \in SourceFiles, output_file \in OutputFiles :
    \E result \in load_from_files(source_file, output_file) :
        /\ load = [source_file |-> source_file, output_file |-> output_file,
                   result |-> result]
        /\ IF result.is_ok
           THEN \E values \in ValueOrders(NewStore(result.items)) :
                    NewApp(result.items, values)
           ELSE NoApp

(* ------------------------------------------------------------------ *)
(* render_key_list                                                      *)
(* ------------------------------------------------------------------ *)
\* a subtraction that does not saturate
saturating_sub_plain(a, b) == a - b

\* usize::saturating_sub
saturating_sub(a, b) == IF a >= b THEN a - b ELSE 0

Min(a, b) == IF a <= b THEN a ELSE b

\* the selection aimed at the bottom row instead of the middle one
ViewportOffset_Bottom(selected, num_items, height) ==
    IF height > 1 /\ num_items > 0
    THEN IF num_items > height
         THEN Min(saturating_sub(selected, height - 1), num_items - height)
         ELSE 0
    ELSE 0

\* the offset render_key_list leaves in its ListState: the stay-centered
\* value, or ListState::default()'s 0 when the computation is skipped
ViewportOffset(selected, num_items, height) ==
    IF height > 1 /\ num_items > 0
    THEN LET middle_row == height \div 2
             offset == saturating_sub(selected, middle_row)
         IN IF num_items > height
            THEN Min(offset, num_items - height)
            ELSE 0
    ELSE 0

\* self.get_node(path).unwrap() fails for some visible row
RenderPanics(t, visible) ==
    \E i \in 1..Len(visible) : ~get_node(t, visible[i][1]).is_some

(* ------------------------------------------------------------------ *)
(* run_app: draw, then one key event                                    *)
(* ------------------------------------------------------------------ *)
\* terminal.draw(ui) followed by the expiry test of the status message (it
\* is dropped once two seconds have passed)
Draw ==
    /\ pc \in {"new", "draw"}
    /\ IF RenderPanics(tree, visible_nodes)
       THEN pc' = "panicked" /\ UNCHANGED status_message
       ELSE /\ pc' = "event"
            /\ status_message' \in {status_message, None}
    /\ UNCHANGED <<tree, visible_nodes, selected_index, textarea,
                   translation_store, mode, list_state, load>>

NormalKey == pc = "event" /\ mode = "Normal"
EditingKey == pc = "event" /\ mode = "Editing"

\* 'q'
Quit ==
    /\ NormalKey
    /\ pc' = "quit"
    /\ UNCHANGED <<tree, visible_nodes, selected_index, textarea,
                   translation_store, mode, status_message, list_state, load>>

\* 's': unflatten runs before the file is created, so its panic does not
\* depend on the file system; the write itself may fail
SavePanic ==
    /\ NormalKey
    /\ unflatten_to_json_value(translation_store) = Panic
    /\ pc' = "panicked"
    /\ UNCHANGED <<tree, visible_nodes, selected_index, textarea,
                   translation_store, mode, status_message, list_state, load>>

\* save_translations returns Ok
SaveOk ==
    /\ NormalKey
    /\ unflatten_to_json_value(translation_store) # Panic
    /\ pc' = "draw"
    /\ status_message' = Some("File saved!")
    /\ UNCHANGED <<tree, visible_nodes, selected_index, textarea,
                   translation_store, mode, list_state, load>>

\* the save error handed on with `?`, which ends run_app
SaveErr_Propagated ==
    /\ NormalKey
    /\ unflatten_to_json_value(translation_store) # Panic
    /\ pc' = "quit"
    /\ UNCHANGED <<tree, visible_nodes, selected_index, textarea,
                   translation_store, mode, status_message, list_state, load>>

\* save_translations returns Err: File::create or the writer failed
SaveErr ==
    /\ NormalKey
    /\ unflatten_to_json_value(translation_store) # Panic
    /\ pc' = "draw"
    /\ status_message' = Some("Error saving file!")
    /\ UNCHANGED <<tree, visible_nodes, selected_index, textarea,
                   translation_store, mode, list_state, load>>

Save == SavePanic \/ SaveOk \/ SaveErr

\* 'y'
\* the selected row is an item of the store, so there is a text to copy
CopyAttempted ==
    get_selected_path.is_some /\ get_selected_path.val \in DOMAIN translation_store

\* clipboard.copy returns Ok
CopyOk ==
    /\ NormalKey
    /\ CopyAttempted
    /\ pc' = "draw"
    /\ status_message' = Some("Copied to clipboard!")
    /\ UNCHANGED <<tree, visible_nodes, selected_index, textarea,
                   translation_store, mode, list_state, load>>

\* clipboard.copy returns Err
CopyErr ==
    /\ NormalKey
    /\ CopyAttempted
    /\ pc' = "draw"
    /\ status_message' = Some("Failed to copy to clipboard")
    /\ UNCHANGED <<tree, visible_nodes, selected_index, textarea,
                   translation_store, mode, list_state, load>>

\* nothing to copy: no row, or a row that is not an item
CopyNothing ==
    /\ NormalKey
    /\ ~CopyAttempted
    /\ pc' = "draw"
    /\ UNCHANGED <<tree, visible_nodes, selected_index, textarea,
                   translation_store, mode, status_message, list_state, load>>

Copy == CopyOk \/ CopyErr \/ CopyNothing

\* 'p' when the clipboard yields text
PasteOk ==
    /\ NormalKey
    /\ \E text \in PasteTexts :
        IF get_selected_path.is_some
        THEN LET path == get_selected_path.val IN
             /\ translation_store' = StoreSetTarget(translation_store, path, Some(text))
             /\ tree' = update_node_translation_status(
                            TreeSetTarget(tree, path, Some(text)))
        ELSE UNCHANGED <<translation_store, tree>>
    /\ status_message' = Some("Pasted from clipboard!")
    /\ pc' = "draw"
    /\ UNCHANGED <<visible_nodes, selected_index, textarea, mode, list_state, load>>

\* 'p' when the clipboard fails
PasteErr ==
    /\ NormalKey
    /\ status_message' = Some("Failed to paste from clipboard")
    /\ pc' = "draw"
    /\ UNCHANGED <<tree, visible_nodes, selected_index, textarea,
                   translation_store, mode, list_state, load>>

\* Down / 'j': next().  visible_nodes.len() - 1 on an empty list overflows:
\* a build with overflow checks panics, one without wraps to usize::MAX,
\* which every index is below
NextRow ==
    /\ NormalKey
    /\ IF Len(visible_nodes) = 0
       THEN \/ pc' = "panicked" /\ UNCHANGED selected_index
            \/ /\ selected_index < MaxSelected
               /\ selected_index' = selected_index + 1
               /\ pc' = "draw"
       ELSE /\ selected_index' = IF selected_index < Len(visible_nodes) - 1
                                 THEN selected_index + 1 ELSE selected_index
            /\ pc' = "draw"
    /\ UNCHANGED <<tree, visible_nodes, textarea, translation_store, mode,
                   status_message, list_state, load>>

\* Up / 'k': previous()
PreviousRow ==
    /\ NormalKey
    /\ selected_index' = IF selected_index > 0 THEN selected_index - 1
                         ELSE selected_index
    /\ pc' = "draw"
    /\ UNCHANGED <<tree, visible_nodes, textarea, translation_store, mode,
                   status_message, list_state, load>>

\* the tail shared by toggle, expand and collapse: update_visible_nodes and
\* the search for the path selected before
Reproject(new_tree, path) ==
    LET visible == VisibleOf(new_tree) IN
    /\ tree' = new_tree
    /\ visible_nodes' = visible
    /\ selected_index' = Reselect(visible, path, ClampSelected(selected_index, visible))

\* ' ': toggle_expand
ToggleExpand ==
    /\ NormalKey
    /\ pc' = "draw"
    /\ IF get_selected_path.is_some
       THEN LET path == get_selected_path.val
                where == get_node(tree, path)
            IN Reproject(
                IF where.is_some /\ ~is_leaf(NodeAt(tree, where.val))
                THEN TreeSetExpanded(tree, where.val, ~NodeAt(tree, where.val).expanded)
                ELSE tree, path)
       ELSE UNCHANGED <<tree, visible_nodes, selected_index>>
    /\ UNCHANGED <<textarea, translation_store, mode, status_message, list_state, load>>

\* Right / 'l' (want = TRUE) and Left / 'h' (want = FALSE)
SetExpand(want) ==
    /\ NormalKey
    /\ pc' = "draw"
    /\ LET where == IF get_selected_path.is_some
                    THEN get_node(tree, get_selected_path.val) ELSE None
       IN IF /\ where.is_some
             /\ ~is_leaf(NodeAt(tree, where.val))
             /\ NodeAt(tree, where.val).expanded # want
          THEN Reproject(TreeSetExpanded(tree, where.val, want), get_selected_path.val)
          ELSE UNCHANGED <<tree, visible_nodes, selected_index>>
    /\ UNCHANGED <<textarea, translation_store, mode, status_message, list_state, load>>

Expand == SetExpand(TRUE)
Collapse == SetExpand(FALSE)

\* Enter: enter_editing_mode on a childless selected node
EnterKey ==
    /\ NormalKey
    /\ pc' = "draw"
    /\ LET where == IF get_selected_path.is_some
                    THEN get_node(tree, get_selected_path.val) ELSE None
       IN IF where.is_some /\ is_leaf(NodeAt(tree, where.val))
          THEN LET node == NodeAt(tree, where.val) IN
               /\ mode' = "Editing"
               /\ textarea' = IF node.translation.is_some
                                 /\ node.translation.val.target_text.is_some
                              THEN TextAreaOf(node.translation.val.target_text.val)
                              ELSE ""
          ELSE UNCHANGED <<mode, textarea>>
    /\ UNCHANGED <<tree, visible_nodes, selected_index, translation_store,
                   status_message, list_state, load>>

\* any other key in Normal mode
OtherKey ==
    /\ NormalKey
    /\ pc' = "draw"
    /\ UNCHANGED <<tree, visible_nodes, selected_index, textarea,
                   translation_store, mode, status_message, list_state, load>>

\* Esc taken for a commit
EditCancel_Saving ==
    /\ EditingKey
    /\ LET text_to_save == IF textarea # "" THEN Some(textarea) ELSE None IN
       IF get_selected_path.is_some
       THEN LET path == get_selected_path.val IN
            /\ translation_store' = StoreSetTarget(translation_store, path, text_to_save)
            /\ tree' = update_node_translation_status(
                           TreeSetTarget(tree, path, text_to_save))
       ELSE UNCHANGED <<translation_store, tree>>
    /\ mode' = "Normal"
    /\ pc' = "draw"
    /\ UNCHANGED <<visible_nodes, selected_index, textarea, status_message, list_state, load>>

\* Esc: exit_editing_mode_without_saving
EditCancel ==
    /\ EditingKey
    /\ mode' = "Normal"
    /\ pc' = "draw"
    /\ UNCHANGED <<tree, visible_nodes, selected_index, textarea,
                   translation_store, status_message, list_state, load>>

\* Ctrl+q: exit_editing_mode_and_save
EditCommit ==
    /\ EditingKey
    /\ LET text_to_save == IF textarea # "" THEN Some(textarea) ELSE None IN
       IF get_selected_path.is_some
       THEN LET path == get_selected_path.val IN
            /\ translation_store' = StoreSetTarget(translation_store, path, text_to_save)
            /\ tree' = update_node_translation_status(
                           TreeSetTarget(tree, path, text_to_save))
       ELSE UNCHANGED <<translation_store, tree>>
    /\ mode' = "Normal"
    /\ pc' = "draw"
    /\ UNCHANGED <<visible_nodes, selected_index, textarea, status_message, list_state, load>>

\* any other key in Editing mode: textarea.input(key)
EditInput ==
    /\ EditingKey
    /\ textarea' \in EditorTexts
    /\ pc' = "draw"
    /\ UNCHANGED <<tree, visible_nodes, selected_index, translation_store,
                   mode, status_message, list_state, load>>

Next ==
    \/ Draw
    \/ Quit
    \/ Save
    \/ Copy
    \/ PasteOk
    \/ PasteErr
    \/ NextRow
    \/ PreviousRow
    \/ ToggleExpand
    \/ Expand
    \/ Collapse
    \/ EnterKey
    \/ OtherKey
    \/ EditCancel
    \/ EditCommit
    \/ EditInput

Spec == Init /\ [][Next]_vars

(* ------------------------------------------------------------------ *)
(* The viewport computation on its own, over every input in the bounds  *)
(* ------------------------------------------------------------------ *)
ViewportInit ==
    /\ translation_store = EmptyMap
    /\ tree = <<>>
    /\ visible_nodes = <<>>
    /\ selected_index = 0
    /\ textarea = ""
    /\ mode = "Normal"
    /\ status_message = None
    /\ pc = "draw"
    /\ load = None
    /\ \E selected \in 0..MaxRows, num_items \in 0..MaxRows, height \in 0..MaxHeight :
        list_state = [selected |-> selected, num_items |-> num_items,
                      height |-> height, offset |-> None]

ViewportRender ==
    /\ ~list_state.offset.is_some
    /\ list_state' = [list_state EXCEPT !.offset =
            Some(ViewportOffset(list_state.selected, list_state.num_items,
                                list_state.height))]
    /\ UNCHANGED <<tree, visible_nodes, selected_index, textarea,
                   translation_store, mode, status_message, pc, load>>

ViewportNext == ViewportRender

ViewportSpec == ViewportInit /\ [][ViewportNext]_vars

(* ------------------------------------------------------------------ *)
(* Vocabulary of the properties                                         *)
(* ------------------------------------------------------------------ *)
\* every node of the forest, as a record
RECURSIVE AllNodes(_)
AllNodes(nodes) ==
    UNION {{nodes[i]} \cup AllNodes(nodes[i].children) : i \in 1..Len(nodes)}

\* the childless nodes at or below a sibling list
DescendantLeaves(nodes) == {n \in AllNodes(nodes) : is_leaf(n)}

\* <<full_path, every ancestor is expanded>> for every node of the forest
RECURSIVE NodesWithAncestry(_, _)
NodesWithAncestry(nodes, ancestors_expanded) ==
    UNION {{<<nodes[i].full_path, ancestors_expanded>>}
           \cup NodesWithAncestry(nodes[i].children,
                                  ancestors_expanded /\ nodes[i].expanded)
           : i \in 1..Len(nodes)}

VisiblePaths == {visible_nodes[i][1] : i \in 1..Len(visible_nodes)}

AllTargetsSet(all_items) == \A k \in DOMAIN all_items : all_items[k].target_text.is_some

TargetMapping(all_items) == [k \in DOMAIN all_items |-> all_items[k].target_text.val]

PrefixFree(all_items) ==
    \A k1, k2 \in DOMAIN all_items :
        LET s1 == Split(k1)
            s2 == Split(k2)
        IN k1 # k2 => ~(Len(s1) < Len(s2) /\ SubSeq(s2, 1, Len(s1)) = s1)

Max(a, b) == IF a >= b THEN a ELSE b

Clamp(x, lo, hi) == IF x < lo THEN lo ELSE IF x > hi THEN hi ELSE x

SelectedNode ==
    IF get_selected_path.is_some /\ get_node(tree, get_selected_path.val).is_some
    THEN Some(NodeAt(tree, get_node(tree, get_selected_path.val).val))
    ELSE None

(* ------------------------------------------------------------------ *)
(* Properties                                                           *)
(* ------------------------------------------------------------------ *)

\* C1: whenever every item of the store has target_text set, unflatten
\* yields a document and flattening that document gives back exactly the
\* store's key -> target_text mapping, prefix keys included.
C1_RoundTrip ==
    AllTargetsSet(translation_store) =>
        LET doc == unflatten_to_json_value(translation_store) IN
        /\ doc # Panic
        /\ \A m \in flatten_json(doc.obj) : m = TargetMapping(translation_store)

\* C2: for every key k of the store, the node that k resolves to carries a
\* translation whose target_text equals the store's target_text for k.
C2_StoreForestAgreement ==
    \A k \in DOMAIN translation_store :
        LET where == get_node(tree, k) IN
        /\ where.is_some
        /\ NodeAt(tree, where.val).translation.is_some
        /\ NodeAt(tree, where.val).translation.val.target_text
               = translation_store[k].target_text

\* a paste has written a text to the selected item, in both copies
C2_Witness ==
    /\ status_message = Some("Pasted from clipboard!")
    /\ get_selected_path.is_some
    /\ get_selected_path.val \in DOMAIN translation_store
    /\ translation_store[get_selected_path.val].target_text = Some("Bonjour")
    /\ SelectedNode.is_some
    /\ SelectedNode.val.translation.is_some
    /\ SelectedNode.val.translation.val.target_text = Some("Bonjour")

\* C3: every node with children has fully_translated equal to the AND,
\* over all its descendant leaves, of "the leaf's item is translated".
C3_CompletionInvariant ==
    \A n \in AllNodes(tree) :
        ~is_leaf(n) =>
            (n.fully_translated <=>
                \A l \in DescendantLeaves(n.children) : LeafStatus(l))

\* an internal node over two leaves has become fully translated: no output
\* document translates both leaves, so a commit or a paste completed it
C3_Witness ==
    /\ mode = "Normal"
    /\ \E n \in AllNodes(tree) :
        /\ Cardinality(DescendantLeaves(n.children)) >= 2
        /\ n.fully_translated

\* C4: a childless node is fully_translated iff it carries a translation
\* whose target_text is set and is not the empty string.
C4_LeafPolicy ==
    \A n \in AllNodes(tree) :
        is_leaf(n) =>
            (n.fully_translated <=>
                /\ n.translation.is_some
                /\ n.translation.val.target_text.is_some
                /\ n.translation.val.target_text.val # "")

\* C5: a node's full_path is in visible_nodes iff all its ancestors are
\* expanded.
C5_VisibilityInvariant ==
    \A p \in NodesWithAncestry(tree, TRUE) : (p[1] \in VisiblePaths) <=> p[2]

\* C6: a toggle, expand or collapse leaves the selected index on the
\* full_path that was selected before it.
C6_FocusPreservation ==
    [][(ToggleExpand \/ Expand \/ Collapse) /\ get_selected_path.is_some =>
          /\ selected_index' < Len(visible_nodes')
          /\ visible_nodes'[selected_index' + 1][1] = get_selected_path.val]_vars

\* a node below the first row is selected and expanded, with its children
\* listed under it
C6_Witness ==
    /\ selected_index >= 1
    /\ SelectedNode.is_some
    /\ SelectedNode.val.expanded
    /\ SelectedNode.val.full_path = get_selected_path.val
    /\ Len(visible_nodes) > selected_index + 1
    /\ visible_nodes[selected_index + 2][2] = visible_nodes[selected_index + 1][2] + 1

\* C7: selected_index is a valid index into visible_nodes, or 0 when the
\* list is empty.
C7_SelectionValid ==
    IF visible_nodes = <<>> THEN selected_index = 0
    ELSE selected_index < Len(visible_nodes)

\* C8: the offset is never negative, is at most num_items - height when the
\* list is longer than the window, and is 0 when the list fits.
C8_ViewportBounds ==
    list_state.offset.is_some =>
        LET offset == list_state.offset.val IN
        /\ offset >= 0
        /\ list_state.num_items > list_state.height =>
                offset <= list_state.num_items - list_state.height
        /\ list_state.num_items <= list_state.height => offset = 0

\* the selection is above the middle row of a list that does not fit, so the
\* subtraction saturates
C8_Witness ==
    /\ list_state.offset.is_some
    /\ list_state.selected < list_state.height \div 2
    /\ list_state.height > 1
    /\ list_state.num_items > list_state.height
    /\ list_state.offset.val = 0

\* the offset the centering policy prescribes
CenteredOffset(selected, num_items, height) ==
    Clamp(selected - (height \div 2), 0, Max(0, num_items - height))

Centered ==
    LET offset == list_state.offset.val IN
    /\ offset = CenteredOffset(list_state.selected, list_state.num_items,
                               list_state.height)
    /\ offset <= list_state.selected
    /\ list_state.selected < offset + list_state.height

\* C9 as stated: for every height >= 1 and valid selection the offset is the
\* clamped centered one and the selected row is inside the window.
C9_CenteringFromOne ==
    /\ list_state.offset.is_some
    /\ list_state.height >= 1
    /\ list_state.selected < list_state.num_items
    => Centered

\* C9 amended: for every height >= 2 and valid selection the offset is the
\* clamped centered one and the selected row is inside the window; at
\* height 1 the computation is skipped and the offset is 0.
C9_Centering ==
    /\ list_state.offset.is_some
    /\ list_state.selected < list_state.num_items
    => /\ list_state.height >= 2 => Centered
       /\ list_state.height = 1 => list_state.offset.val = 0

\* the selection sits on the middle row, away from both clamps
C9_Witness ==
    /\ list_state.offset.is_some
    /\ list_state.height >= 2
    /\ list_state.selected < list_state.num_items
    /\ list_state.offset.val > 0
    /\ list_state.offset.val < list_state.num_items - list_state.height
    /\ list_state.selected = list_state.offset.val + list_state.height \div 2

\* C10: unflatten of the store and the node lookup of every visible row
\* complete without a panic.
C10_CoreTotal ==
    /\ unflatten_to_json_value(translation_store) # Panic
    /\ ~RenderPanics(tree, visible_nodes)

(* ------------------------------------------------------------------ *)
(* Vocabulary of the properties about documents and load                *)
(* ------------------------------------------------------------------ *)
\* <<segments of the path, text>> for every string leaf of a document value
RECURSIVE DocLeaves(_, _)
DocLeaves(value, path) ==
    IF value.type = "String" THEN {<<path, value.s>>}
    ELSE UNION {DocLeaves(value.obj[key], Append(path, key)) : key \in DOMAIN value.obj}

\* the document a save would write in this state
SavedDoc == unflatten_to_json_value(translation_store)

TranslatedKeys == {k \in DOMAIN translation_store : translation_store[k].target_text.is_some}

\* the parsed output document; empty when there is no file or no path
LoadedTargetData ==
    IF load.output_file.kind = "json" THEN load.output_file.data ELSE EmptyMap

LoadedItems == load.result.items

\* C11: the document a save writes has a string leaf t at path k exactly for
\* the items with key k whose target_text is set to t.
C11_UnflattenContent ==
    /\ SavedDoc # Panic
    /\ DocLeaves(SavedDoc, <<>>)
         = {<<Split(k), translation_store[k].target_text.val>> : k \in TranslatedKeys}

\* C12: no leaf of the document a save writes is the empty string.
C12_NoEmptyValues ==
    SavedDoc # Panic => \A leaf \in DocLeaves(SavedDoc, <<>>) : leaf[2] # ""

\* C13: the loaded items have exactly the keys of flatten(source), each with
\* the value of flatten(target) at its key or absent; the store keeps that
\* key set, and a key only the target has is neither an item nor a leaf of
\* the document a save writes.
C13_LoadMerge ==
    load.result.is_ok =>
        \E flat_source \in flatten_json(load.source_file.data),
           flat_target \in flatten_json(LoadedTargetData) :
            /\ {LoadedItems[i].key : i \in 1..Len(LoadedItems)} = DOMAIN flat_source
            /\ Len(LoadedItems) = Cardinality(DOMAIN flat_source)
            /\ \A i \in 1..Len(LoadedItems) :
                LoadedItems[i].target_text =
                    IF LoadedItems[i].key \in DOMAIN flat_target
                    THEN Some(flat_target[LoadedItems[i].key]) ELSE None
            /\ DOMAIN translation_store = DOMAIN flat_source
            /\ \A k \in DOMAIN flat_target \ DOMAIN flat_source :
                SavedDoc # Panic =>
                    \A leaf \in DocLeaves(SavedDoc, <<>>) : leaf[1] # Split(k)

\* the output document had a key the source lacks, an item was loaded with
\* its target, and a save has been written since
C13_Witness ==
    /\ load.result.is_ok
    /\ status_message = Some("File saved!")
    /\ \E flat_source \in flatten_json(load.source_file.data),
          flat_target \in flatten_json(LoadedTargetData) :
            /\ DOMAIN flat_target \ DOMAIN flat_source # {}
            /\ DOMAIN flat_target \cap DOMAIN flat_source # {}
    /\ TranslatedKeys # {}

(* ------------------------------------------------------------------ *)
(* Vocabulary of the properties about the forest                        *)
(* ------------------------------------------------------------------ *)
\* the forest without its UI and derived flags
RECURSIVE StripFlags(_)
StripFlags(nodes) ==
    [i \in 1..Len(nodes) |->
        [nodes[i] EXCEPT !.expanded = FALSE, !.fully_translated = FALSE,
                         !.children = StripFlags(nodes[i].children)]]

\* every sibling list at or below `nodes` is strictly ascending by segment
RECURSIVE SiblingsSorted(_)
SiblingsSorted(nodes) ==
    /\ \A i, j \in 1..Len(nodes) :
        i < j => StrLess(nodes[i].key_segment, nodes[j].key_segment)
    /\ \A i \in 1..Len(nodes) : SiblingsSorted(nodes[i].children)

\* the keys of the items attached at or below a node
KeysUnder(node) ==
    {n.translation.val.key : n \in {m \in AllNodes(<<node>>) : m.translation.is_some}}

\* the key with which a node first occurs in the key-sorted item list
FirstKey(node) ==
    CHOOSE k \in KeysUnder(node) : \A other \in KeysUnder(node) \ {k} : StrLess(k, other)

\* every sibling list at or below `nodes` is in order of first occurrence
RECURSIVE SiblingsByFirstKey(_)
SiblingsByFirstKey(nodes) ==
    /\ \A i, j \in 1..Len(nodes) :
        i < j => StrLess(FirstKey(nodes[i]), FirstKey(nodes[j]))
    /\ \A i \in 1..Len(nodes) : SiblingsByFirstKey(nodes[i].children)

\* no key has a character that sorts below '.'
NoCharBelowDot ==
    \A k \in DOMAIN translation_store :
        \A i \in 1..Len(k) : Code(k[i]) >= Code(".")

\* full_path is the parent's full_path, a dot and the segment; a root's is
\* its segment
RECURSIVE PathsJoined(_, _)
PathsJoined(nodes, parent) ==
    \A i \in 1..Len(nodes) :
        /\ nodes[i].full_path =
                IF parent.is_some THEN DotJoin(parent.val, nodes[i].key_segment)
                ELSE nodes[i].key_segment
        /\ PathsJoined(nodes[i].children, Some(nodes[i].full_path))

\* C14: build_tree yields the session's forest (same nodes, sibling order,
\* full_paths and translations) for every order of the item list.
C14_BuildDeterminism ==
    pc # "load_failed" =>
        \A values \in ValueOrders(translation_store) :
            StripFlags(build_tree(values)) = StripFlags(tree)

\* a forest of three items with more than one root
C14_Witness ==
    /\ Cardinality(DOMAIN translation_store) >= 3
    /\ Len(tree) >= 2
    /\ \E i \in 1..Len(tree) : Len(tree[i].children) >= 2

\* C15 as stated: every sibling list is ascending by key_segment.
C15_SiblingsSorted == SiblingsSorted(tree)

\* C15 amended: every sibling list is in the order in which its nodes first
\* occur in the key-sorted item list, which is ascending by key_segment
\* when no key has a character that sorts below '.'.
C15_SiblingOrder ==
    /\ SiblingsByFirstKey(tree)
    /\ NoCharBelowDot => SiblingsSorted(tree)

\* roots "a-b" and "a", in that order
C15_Witness ==
    /\ Len(tree) >= 2
    /\ ~NoCharBelowDot
    /\ StrLess(tree[2].key_segment, tree[1].key_segment)

\* C16 as stated: a node is childless iff it carries a translation, and a
\* node without a translation has a child.
C16_LeafIffTranslation ==
    \A n \in AllNodes(tree) :
        /\ is_leaf(n) <=> n.translation.is_some
        /\ ~n.translation.is_some => ~is_leaf(n)

\* C16 amended: a node without a translation has a child (a childless node
\* carries a translation), and when no key is a dot-prefix of another a node
\* is childless iff it carries a translation.
C16_LeafTranslation ==
    /\ \A n \in AllNodes(tree) : ~n.translation.is_some => ~is_leaf(n)
    /\ PrefixFree(translation_store) =>
            \A n \in AllNodes(tree) : is_leaf(n) <=> n.translation.is_some

\* a prefix-free catalog with a node two levels above its leaf
C16_Witness ==
    /\ PrefixFree(translation_store)
    /\ \E n \in AllNodes(tree) :
        /\ ~n.translation.is_some
        /\ \E c \in AllNodes(n.children) : ~is_leaf(c)

\* C17: every node's full_path is its parent's full_path, ".", and its
\* key_segment; a root's full_path is its key_segment.
C17_PathInvariant == PathsJoined(tree, None)

(* ------------------------------------------------------------------ *)
(* Vocabulary of the properties about the projection                    *)
(* ------------------------------------------------------------------ *)
\* the position (1-based sibling indices from the roots) of every node
RECURSIVE AllPositions(_, _)
AllPositions(nodes, above) ==
    UNION {{Append(above, i)} \cup AllPositions(nodes[i].children, Append(above, i))
           : i \in 1..Len(nodes)}

\* the positions all of whose ancestors are expanded
ShownPositions ==
    {p \in AllPositions(tree, <<>>) :
        \A k \in 1..(Len(p) - 1) : NodeAt(tree, SubSeq(p, 1, k)).expanded}

\* pre-order: an ancestor before its descendants, an earlier sibling's
\* subtree before a later sibling's
PreorderBefore(p, q) ==
    \E i \in 1..(Len(p) + 1) :
        /\ \A j \in 1..(i - 1) : j <= Len(q) /\ p[j] = q[j]
        /\ \/ i = Len(p) + 1 /\ Len(q) >= i
           \/ i <= Len(p) /\ i <= Len(q) /\ p[i] < q[i]

RECURSIVE InPreorder(_)
InPreorder(S) ==
    IF S = {} THEN <<>>
    ELSE LET first == CHOOSE p \in S : \A q \in S \ {p} : PreorderBefore(p, q)
         IN <<first>> \o InPreorder(S \ {first})

\* C18: visible_nodes lists, in pre-order, exactly the nodes whose ancestors
\* are all expanded, each with its full_path and its number of ancestors.
C18_PreorderProjection ==
    LET shown == InPreorder(ShownPositions) IN
    /\ Len(visible_nodes) = Len(shown)
    /\ \A i \in 1..Len(shown) :
        visible_nodes[i] = <<NodeAt(tree, shown[i]).full_path, Len(shown[i]) - 1>>

\* below a first root, an expanded root lists its children, one of which is
\* collapsed and hides its own
C18_Witness ==
    /\ \E i \in 1..Len(visible_nodes) : i >= 2 /\ visible_nodes[i][2] = 1
    /\ Len(tree) >= 2
    /\ Cardinality(ShownPositions) < Cardinality(AllPositions(tree, <<>>))

\* C19: a failed save, copy or paste in Normal mode does not end the
\* session: the loop goes on to the next draw, the mode is Normal, and the
\* status message reports the failure.
C19_RecoverableErrors ==
    [][(SaveErr \/ CopyErr \/ PasteErr) =>
          /\ pc' = "draw"
          /\ mode' = "Normal"
          /\ status_message' \in {Some("Error saving file!"),
                                  Some("Failed to copy to clipboard"),
                                  Some("Failed to paste from clipboard")}]_vars

\* a save has failed and the session is about to draw again
C19_Witness ==
    /\ pc = "draw"
    /\ mode = "Normal"
    /\ status_message = Some("Error saving file!")

\* C20: with the source readable, a missing output file or no output path
\* loads with every target_text absent; an output file that does not parse
\* makes load fail with no items.
C20_MissingOutput ==
    /\ load.source_file.kind = "json"
       /\ load.output_file.kind \in {"missing", "not_given"}
       => /\ load.result.is_ok
          /\ \A i \in 1..Len(LoadedItems) : LoadedItems[i].target_text = None
    /\ load.output_file.kind = "malformed"
       => /\ ~load.result.is_ok
          /\ pc = "load_failed"
          /\ translation_store = EmptyMap

\* the output path names no file and two items or more were loaded
C20_Witness ==
    /\ load.output_file = FileMissing
    /\ load.result.is_ok
    /\ Len(LoadedItems) >= 2
    /\ \A k \in DOMAIN translation_store : translation_store[k].target_text = None

(* ------------------------------------------------------------------ *)
(* Vocabulary of the properties about the session's operations          *)
(* ------------------------------------------------------------------ *)
\* key and source_text of every item of the store
StoreSources(all_items) ==
    [k \in DOMAIN all_items |-> <<all_items[k].key, all_items[k].source_text>>]

\* the forest with, in place of each translation, its key and source_text
RECURSIVE ForestSources(_)
ForestSources(nodes) ==
    [i \in 1..Len(nodes) |->
        [key_segment |-> nodes[i].key_segment,
         full_path |-> nodes[i].full_path,
         source |-> IF nodes[i].translation.is_some
                    THEN Some(<<nodes[i].translation.val.key,
                                nodes[i].translation.val.source_text>>)
                    ELSE None,
         children |-> ForestSources(nodes[i].children)]]

\* C21: no step of the session changes the store's key set, an item's key
\* or source_text, or the key and source_text cached in the forest.
C21_SourceImmutable ==
    [][/\ StoreSources(translation_store') = StoreSources(translation_store)
       /\ ForestSources(tree') = ForestSources(tree)]_vars

\* an item loaded without a target has been given one and a save has run
C21_Witness ==
    /\ load.result.is_ok
    /\ status_message = Some("File saved!")
    /\ \E i \in 1..Len(LoadedItems) :
        /\ LoadedItems[i].target_text = None
        /\ translation_store[LoadedItems[i].key].target_text = Some("Bonjour")
        /\ translation_store[LoadedItems[i].key].source_text = LoadedItems[i].source_text

\* the store whose items carry the texts of a flattened mapping as targets
StoreOfMapping(m) == [k \in DOMAIN m |-> TranslationItem(k, "", Some(m[k]))]

\* C22: unflatten of the store yields a document, and for every mapping m
\* that flattening it can give, unflatten and flatten of m (each text taken
\* as target_text) yield a document and exactly m again.
C22_Idempotence ==
    LET doc == unflatten_to_json_value(translation_store) IN
    /\ doc # Panic
    /\ \A m \in flatten_json(doc.obj) :
        LET again == unflatten_to_json_value(StoreOfMapping(m)) IN
        /\ again # Panic
        /\ flatten_json(again.obj) = {m}

\* the target_text the loaded item list has for a key
LoadedTarget(k) ==
    LET i == CHOOSE j \in 1..Len(LoadedItems) : LoadedItems[j].key = k
    IN LoadedItems[i].target_text

\* every flag at or below `nodes` follows from the loaded targets: a
\* childless node's from its own item, a parent's from its children's flags
RECURSIVE FlagsFromLoad(_)
FlagsFromLoad(nodes) ==
    \A i \in 1..Len(nodes) :
        /\ nodes[i].fully_translated <=>
                IF is_leaf(nodes[i])
                THEN /\ nodes[i].translation.is_some
                     /\ LoadedTarget(nodes[i].translation.val.key).is_some
                ELSE \A j \in 1..Len(nodes[i].children) :
                        nodes[i].children[j].fully_translated
        /\ FlagsFromLoad(nodes[i].children)

\* C23: in the state App::new returns, no node is expanded, visible_nodes is
\* the list of the roots in sibling order at depth 0, selected_index is 0,
\* the mode is Normal and the fully_translated flags follow from the loaded
\* targets.
C23_InitialSession ==
    pc = "new" =>
        /\ \A n \in AllNodes(tree) : ~n.expanded
        /\ visible_nodes = [i \in 1..Len(tree) |-> <<tree[i].full_path, 0>>]
        /\ selected_index = 0
        /\ mode = "Normal"
        /\ FlagsFromLoad(tree)

\* a session just built from a catalog with two roots and nested keys, one
\* item loaded with its target and a sibling without
C23_Witness ==
    /\ pc = "new"
    /\ Len(tree) >= 2
    /\ \E n \in AllNodes(tree) : is_leaf(n) /\ n.fully_translated
    /\ \E n \in AllNodes(tree) : ~is_leaf(n) /\ ~n.fully_translated

\* the position of the node that emitted the selected row
SelectedPosition == InPreorder(ShownPositions)[selected_index + 1]

\* C24: a commit writes the editor's text t to the target_text of the item
\* of the selected row, in the store and in the row's node; with the empty
\* text it writes absent to both, the item is untranslated afterwards and
\* the document a save writes has no leaf at its key.
C24_EditCommit ==
    [][EditCommit /\ selected_index < Len(visible_nodes) =>
          LET node == NodeAt(tree, SelectedPosition)
              written == IF textarea # "" THEN Some(textarea) ELSE None
          IN /\ node.translation.is_some
             /\ LET key == node.translation.val.key
                    node_after == NodeAt(tree', SelectedPosition)
                IN /\ translation_store'[key].target_text = written
                   /\ node_after.translation.val.target_text = written
                   /\ textarea = "" =>
                        /\ ~is_translated(translation_store'[key])
                        /\ ~node_after.fully_translated
                        /\ LET doc == unflatten_to_json_value(translation_store')
                           IN doc # Panic =>
                                \A leaf \in DocLeaves(doc, <<>>) :
                                    leaf[1] # Split(key)]_vars

\* C25: Esc in Editing mode sets the mode to Normal, and neither it nor any
\* draw or typed key since editing was entered changes the store, the forest
\* (translations, fully_translated and expanded flags), visible_nodes or
\* selected_index, so they are at Esc what they were at entry.
C25_EditCancel ==
    [][/\ EditCancel => mode' = "Normal"
       /\ mode = "Editing" /\ (EditCancel \/ EditInput \/ Draw) =>
            UNCHANGED <<translation_store, tree, visible_nodes, selected_index>>]_vars

\* catalog {"a":{"b":..,"c":..}} with no target set anywhere and the typed
\* text still in the editor: the editing that typed it ended with Esc
C25_Witness ==
    /\ mode = "Normal"
    /\ pc = "draw"
    /\ textarea = "Bonjour"
    /\ load.source_file = JsonFile(SourceA)
    /\ \A k \in DOMAIN translation_store : translation_store[k].target_text = None
    /\ \A n \in AllNodes(tree) :
        n.translation.is_some => n.translation.val.target_text = None

\* the expanded flag of every node, by position
ExpandFlags(t) == [p \in AllPositions(t, <<>>) |-> NodeAt(t, p).expanded]

\* a step that enters Editing mode is an Enter in Normal mode on a selected
\* row whose node has no children
EntersByEnterOnLeaf ==
    mode # "Editing" /\ mode' = "Editing" =>
        /\ EnterKey
        /\ mode = "Normal"
        /\ selected_index < Len(visible_nodes)
        /\ is_leaf(NodeAt(tree, SelectedPosition))

\* a step taken in Editing mode keeps the selection, the visible list and
\* the expand flags, and does not quit
EditingKeepsSelection ==
    mode = "Editing" =>
        /\ UNCHANGED <<selected_index, visible_nodes>>
        /\ ExpandFlags(tree') = ExpandFlags(tree)
        /\ pc' # "quit"

\* a step that leaves Editing mode is Esc or Ctrl+q
LeavesByEscOrCommit ==
    mode = "Editing" /\ mode' # "Editing" => EditCancel \/ EditCommit

\* a commit writes the editor's text to the item of the selected row
CommitWritesSelectedItem ==
    EditCommit /\ selected_index < Len(visible_nodes) =>
        LET node == NodeAt(tree, SelectedPosition) IN
        /\ node.translation.is_some
        /\ translation_store'[node.translation.val.key].target_text
               = IF textarea # "" THEN Some(textarea) ELSE None

\* C26: Editing is entered only by Enter in Normal mode on a childless
\* selected node; no step in Editing mode changes selected_index,
\* visible_nodes or an expand flag or quits; a commit writes to the item of
\* the row selected since editing began; Editing is left only by Esc or
\* Ctrl+q.
C26_EditTargeting ==
    [][/\ EntersByEnterOnLeaf
       /\ EditingKeepsSelection
       /\ CommitWritesSelectedItem
       /\ LeavesByEscOrCommit]_vars

\* the forest with every expanded flag cleared
RECURSIVE StripExpanded(_)
StripExpanded(nodes) ==
    [i \in 1..Len(nodes) |->
        [nodes[i] EXCEPT !.expanded = FALSE,
                         !.children = StripExpanded(nodes[i].children)]]

\* a toggle flips the flag of the selected row's node when it has children
\* and no other flag, and changes nothing else in the forest or the store
ToggleFlipsSelectedOnly ==
    ToggleExpand /\ selected_index < Len(visible_nodes) =>
        LET flags == ExpandFlags(tree)
            selected == SelectedPosition
        IN /\ ExpandFlags(tree') =
                [p \in DOMAIN flags |->
                    IF p = selected /\ ~is_leaf(NodeAt(tree, selected))
                    THEN ~flags[p] ELSE flags[p]]
           /\ StripExpanded(tree') = StripExpanded(tree)
           /\ translation_store' = translation_store

ChildlessNeverExpanded == \A n \in AllNodes(tree) : is_leaf(n) => ~n.expanded

\* C27: toggle_expand flips the expanded flag of the selected node when it
\* has children and of no node when it is childless, leaves every other
\* expanded flag, every translation, every fully_translated flag and the
\* store unchanged, and no childless node is ever expanded.
C27_ToggleFrame == [][ToggleFlipsSelectedOnly]_vars /\ []ChildlessNeverExpanded

AllRootsTranslated == \A i \in 1..Len(tree) : tree[i].fully_translated

ProgressComplete ==
    get_translation_progress(translation_store)[1]
        = get_translation_progress(translation_store)[2]

\* C28 as stated: with a non-empty catalog, the counter reports translated
\* = total iff every root's fully_translated flag is true.
C28_ProgressIffRoots ==
    pc # "load_failed" /\ DOMAIN translation_store # {} =>
        (ProgressComplete <=> AllRootsTranslated)

\* C28 amended: with a non-empty catalog, translated = total implies that
\* every root's flag is true, and the converse holds when no key is a
\* dot-prefix of another.
C28_ProgressForest ==
    pc # "load_failed" /\ DOMAIN translation_store # {} =>
        /\ ProgressComplete => AllRootsTranslated
        /\ PrefixFree(translation_store) =>
                (AllRootsTranslated => ProgressComplete)

\* a prefix-free catalog of two items or more, all translated: no output
\* document does that, so an edit or a paste completed it
C28_Witness ==
    /\ PrefixFree(translation_store)
    /\ get_translation_progress(translation_store)[2] >= 2
    /\ ProgressComplete
    /\ AllRootsTranslated

\* C29: get_node resolves the full_path of every row of visible_nodes to
\* the node that emitted the row, so the lookup of render_key_list does not
\* fail, and the path of a selected row whose node is childless is a key of
\* the store.
C29_VisiblePathsResolve ==
    LET shown == InPreorder(ShownPositions) IN
    /\ \A i \in 1..Len(visible_nodes) :
        /\ i <= Len(shown)
        /\ get_node(tree, visible_nodes[i][1]) = Some(shown[i])
    /\ ~RenderPanics(tree, visible_nodes)
    /\ selected_index < Len(visible_nodes) /\ selected_index < Len(shown) =>
        (is_leaf(NodeAt(tree, shown[selected_index + 1]))
            => visible_nodes[selected_index + 1][1] \in DOMAIN translation_store)
====
